---- MODULE Spec2Model ----
(***************************************************************************)
(* A model of gofer's RPC messaging engine.                                *)
(*                                                                         *)
(*   Server side: gofer/messaging/consumer.py                               *)
(*     ReceiverThread.run, Consumer.received, Consumer.valid,               *)
(*     RequestConsumer.dispatch / checkwindow / sendstarted / sendreply.    *)
(*   Client side: gofer/rmi/policy.py                                       *)
(*     Synchronous.__init__ / send / __getstarted / __getreply / __onreply, *)
(*     reading replies with gofer/messaging/consumer.py Reader.next/search. *)
(*                                                                         *)
(*     Asynchronous.send / broadcast / replyto / notifywatchdog, Trigger.   *)
(*   Transport: gofer/transport/qpid/consumer.py Reader,                    *)
(*     gofer/messaging/adapter/qpid/connection.py Connection.               *)
(*                                                                         *)
(* Spec          : the request consumer (server side).                     *)
(* SpecStop      : the same, its thread being scheduled.                   *)
(* SpecSync      : the synchronous policy (client side).                   *)
(* SpecAsync     : the asynchronous policy and its triggers.               *)
(* SpecBroadcast : the asynchronous policy, send and broadcast.            *)
(* SpecConn      : the Connection objects of the threads.                  *)
(* SpecReader    : one qpid Reader, used by several threads.               *)
(***************************************************************************)
EXTENDS Integers, Sequences, FiniteSets, TLC

\* ------------------------------------------------------------------ bounds

\* Number of messages the broker delivers to the agent's inbound queue.
MaxRequests == 2
\* The clock runs over 0..MaxTime.
MaxTime == 2

\* ------------------------------------------------------------- data model

\* Python's None, for string-valued fields (replyto, status).
None == "none"

\* The running protocol version (gofer.messaging.version) and another one.
version == "0.5"

\* envelope.window: absent, or <<begin, duration>>.
NoWindow == <<>>
Windows == {NoWindow, <<1, 0>>, <<0, 1>>}

\* Reply addresses a request may carry.
ReplyTos == {None, "R"}

\* request payloads: a method that returns and one that raises.
Methods == {"echo", "fail"}

\* Return (gofer.messaging.dispatcher.Return): retval or exval, or no result.
NoResult == [tag |-> "none", val |-> ""]
ReturnSucceeded(v) == [tag |-> "retval", val |-> v]
ReturnException(kind) == [tag |-> "exval", val |-> kind]

\* The message with serial number sn, as put on the wire by a requester.
\* content = "garbage" is a message whose content Envelope.load cannot parse.
Message(sn, ver, replyto, window, method) ==
    [sn |-> sn, version |-> ver, replyto |-> replyto, window |-> window,
     request |-> method, any |-> "any", content |-> "ok"]

Garbage(sn) ==
    [sn |-> sn, version |-> version, replyto |-> None, window |-> NoWindow,
     request |-> "echo", any |-> "any", content |-> "garbage"]

\* The messages that may arrive as the sn-th message of the inbound queue.
\* valid() reads only the version, so two representatives of a mismatched
\* version are enough: one without a window, one whose window is yet to come.
Messages(sn) ==
    { Message(sn, version, r, w, m) : r \in ReplyTos, w \in Windows, m \in Methods }
    \cup { Message(sn, "0.4", "R", NoWindow, "echo"),
           Message(sn, "0.4", "R", <<1, 0>>, "echo"), Garbage(sn) }

\* ------------------------------------------------------------ server state

VARIABLES
    now,        \* the clock
    run,        \* ReceiverThread.__run
    pc,         \* ReceiverThread: "loop" (at the while test) or "done"
    inbox,      \* messages handed to Consumer.received, in order, with the time
    acked,      \* serial numbers of the inbound messages acknowledged
    unacked,    \* serial numbers of the messages fetched and not acknowledged
    outbound,   \* envelopes the reply producer has sent, in order
    pending,    \* the pending queue: envelopes waiting for their window
    invoked,    \* serial numbers handed to dispatcher.dispatch, in order
    log         \* errors logged: <<text, sn>>

serverVars == <<now, run, pc, inbox, acked, unacked, outbound, pending, invoked, log>>

\* ------------------------------------------------------------ client state

VARIABLES
    options,    \* options.timeout, which the policy objects are constructed with
    arrivals,   \* what arrives on the reply queue of a call, after the request
    uuid,       \* the number of uuids getuuid() has issued
    policies,   \* the Synchronous policy objects constructed
    sent,       \* the requests handed to producer.send by Synchronous.send
    last        \* the last call of Synchronous.send: its input and what it did

clientVars == <<options, arrivals, uuid, policies, sent, last>>

\* ------------------------------------------------------ asynchronous state

VARIABLES
    apolicy,    \* the Asynchronous policy object
    serial,     \* the number of uuids getuuid() has issued to triggers
    triggers,   \* the Trigger objects Asynchronous.send has returned
    tpc,        \* each thread's position in Trigger.__call__
    wire,       \* the requests handed to producer.send by Trigger.__send
    tracked,    \* the calls of watchdog.track, in order
    returned,   \* what the calls of Asynchronous.send returned, in order
    events      \* what the invocations of the triggers did, in order

asyncVars == <<apolicy, serial, triggers, tpc, wire, tracked, returned, events>>

\* -------------------------------------------------------- connection state

VARIABLES
    conns,      \* Connection._impl of the Connection object of each thread and url
    real,       \* the RealConnection objects constructed, in order
    lastclose   \* the last call of Connection.close: on what, and what it did

connVars == <<conns, real, lastclose>>

\* ------------------------------------------------------------ reader state

VARIABLES
    opened,     \* Reader.__opened
    receivers,  \* the receivers created on the session, in order: open or not
    rsession,   \* the endpoint holds a session
    rlock,      \* the thread that holds the endpoint's mutex, or None
    rpc,        \* each thread's position in Reader.open or Reader.close
    ropened,    \* the threads whose open() returned since the reader was closed
    fetched,    \* the number of messages receiver.fetch has returned
    racked,     \* the messages acknowledged through the endpoint, in order
    reads       \* the calls of Reader.next: what was fetched, what came back

readerVars == <<opened, receivers, rsession, rlock, rpc, ropened, fetched, racked, reads>>

\* What an action of one part of the model leaves alone.
nonServerVars == <<clientVars, asyncVars, connVars, readerVars>>
nonClientVars == <<serverVars, asyncVars, connVars, readerVars>>
nonAsyncVars == <<serverVars, clientVars, connVars, readerVars>>
nonConnVars == <<serverVars, clientVars, asyncVars, readerVars>>
nonReaderVars == <<serverVars, clientVars, asyncVars, connVars>>

\* ---------------------------------------------------------------- window

\* Window.future(): now < begin.  An absent window is never future.
WindowFuture(w, t) == w # NoWindow /\ t < w[1]

\* Window.past(): now > begin + duration.  An absent window is never past.
WindowPast(w, t) == w # NoWindow /\ t > w[1] + w[2]

\* ------------------------------------------------------------ dispatcher

\* Dispatcher.dispatch(request): the handler's value, or the exception it
\* raised (NotFound for a target that is not registered); it never raises
\* itself.
Dispatcher(request) ==
    CASE request = "echo" -> ReturnSucceeded("hi")
      [] request = "fail" -> ReturnException("ValueError")
      [] OTHER            -> ReturnException("NotFound")

\* --------------------------------------------------------- pending queue

RECURSIVE Insert(_, _)
\* PendingQueue.add: the queue is kept ordered by window.begin, ascending.
Insert(q, e) ==
    IF q = <<>> THEN <<e>>
    ELSE IF e.window[1] < Head(q).window[1] THEN <<e>> \o q
    ELSE <<Head(q)>> \o Insert(Tail(q), e)

\* -------------------------------------------------------- RequestConsumer

\* What an operation did: envelopes sent, errors logged, envelopes added to
\* the pending queue, requests handed to the dispatcher, and whether it
\* raised to its caller.
Effect(out, lg, add, inv, raised) ==
    [out |-> out, log |-> lg, add |-> add, invoked |-> inv, raised |-> raised]

NoEffect == Effect(<<>>, {}, <<>>, <<>>, FALSE)

\* The envelope Producer.send(replyto, sn=, any=, status= | result=) puts on
\* the wire.
Reply(to, sn, any, status, result) ==
    [to |-> to, sn |-> sn, any |-> any, status |-> status, result |-> result]

\* A sendstarted that does not look at replyto.
sendstartedAlways(envelope, fails) ==
    Effect(<<Reply(envelope.replyto, envelope.sn, envelope.any,
                   "started", NoResult)>>, {}, <<>>, <<>>, FALSE)

\* RequestConsumer.sendstarted: nothing without replyto; one send, an error
\* of which is logged and swallowed.
sendstarted(envelope, fails) ==
    IF envelope.replyto = None THEN NoEffect
    ELSE IF fails
         THEN Effect(<<>>, {<<"send (started), failed", envelope.sn>>}, <<>>, <<>>, FALSE)
         ELSE Effect(<<Reply(envelope.replyto, envelope.sn, envelope.any,
                             "started", NoResult)>>, {}, <<>>, <<>>, FALSE)

\* A sendreply that sends again after a send that failed.
sendreplyRetry(envelope, result, fails) ==
    IF envelope.replyto = None THEN NoEffect
    ELSE LET e == Reply(envelope.replyto, envelope.sn, envelope.any, None, result)
         IN  Effect(<<e>>, IF fails THEN {<<"send failed", envelope.sn>>} ELSE {},
                    <<>>, <<>>, FALSE)

\* A sendreply that sends the reply twice.
sendreplyTwice(envelope, result, fails) ==
    IF envelope.replyto = None THEN NoEffect
    ELSE LET e == Reply(envelope.replyto, envelope.sn, envelope.any, None, result)
         IN  Effect(<<e, e>>, {}, <<>>, <<>>, FALSE)

\* RequestConsumer.sendreply: nothing without replyto; one send, an error of
\* which is logged and swallowed.
sendreply(envelope, result, fails) ==
    IF envelope.replyto = None THEN NoEffect
    ELSE IF fails
         THEN Effect(<<>>, {<<"send failed", envelope.sn>>}, <<>>, <<>>, FALSE)
         ELSE Effect(<<Reply(envelope.replyto, envelope.sn, envelope.any,
                             None, result)>>, {}, <<>>, <<>>, FALSE)

\* A checkwindow that takes a window that is over for one yet to come.
checkwindowPastPending(envelope, t) ==
    IF WindowFuture(envelope.window, t) \/ WindowPast(envelope.window, t)
    THEN "WindowPending"
    ELSE None

\* A checkwindow that forgets the past test.
checkwindowNoPast(envelope, t) ==
    IF WindowFuture(envelope.window, t) THEN "WindowPending" ELSE None

\* RequestConsumer.checkwindow: the exception it raises, or None.
checkwindow(envelope, t) ==
    IF WindowFuture(envelope.window, t) THEN "WindowPending"
    ELSE IF WindowPast(envelope.window, t) THEN "WindowMissed"
    ELSE None

\* A dispatch that reports STARTED only after the reply.
dispatchStartedLast(envelope, t, f) ==
    LET w == checkwindow(envelope, t) IN
    IF w = "WindowPending"
    THEN IF f.add
         THEN Effect(<<>>, {}, <<>>, <<>>, TRUE)
         ELSE Effect(<<>>, {}, <<envelope>>, <<>>, FALSE)
    ELSE IF w = "WindowMissed"
    THEN sendreply(envelope, ReturnException("WindowMissed"), f.reply)
    ELSE LET s == sendstarted(envelope, f.started)
             result == Dispatcher(envelope.request)
             r == sendreply(envelope, result, f.reply)
         IN  Effect(r.out \o s.out, s.log \cup r.log, <<>>, <<envelope.sn>>, FALSE)

\* RequestConsumer.dispatch at time t.  f says which of the calls into the
\* transport and the store fail: f.started and f.reply (producer.send raises),
\* f.add (pending.add raises).
dispatch(envelope, t, f) ==
    LET w == checkwindow(envelope, t) IN
    IF w = "WindowPending"
    THEN IF f.add
         THEN Effect(<<>>, {}, <<>>, <<>>, TRUE)
         ELSE Effect(<<>>, {}, <<envelope>>, <<>>, FALSE)
    ELSE IF w = "WindowMissed"
    THEN sendreply(envelope, ReturnException("WindowMissed"), f.reply)
    ELSE LET s == sendstarted(envelope, f.started)
             result == Dispatcher(envelope.request)
             r == sendreply(envelope, result, f.reply)
         IN  Effect(s.out \o r.out, s.log \cup r.log, <<>>, <<envelope.sn>>, FALSE)

\* A valid that accepts every version.
validAny(envelope) == TRUE

\* Consumer.valid
valid(envelope) == envelope.version = version

\* Consumer.received: the effect of the dispatch, and whether the message was
\* acknowledged.  Envelope.load raises on content it cannot parse.
received(message, t, f) ==
    IF message.content = "garbage"
    THEN [eff |-> Effect(<<>>, {}, <<>>, <<>>, TRUE), ack |-> FALSE]
    ELSE IF valid(message)
    THEN LET d == dispatch(message, t, f) IN [eff |-> d, ack |-> ~d.raised]
    ELSE [eff |-> NoEffect, ack |-> TRUE]

\* The record kept of a message handed to Consumer.received at time t.
Received(m, t) ==
    [sn |-> m.sn, version |-> m.version, replyto |-> m.replyto,
     window |-> m.window, content |-> m.content, at |-> t]

Failures == [started : BOOLEAN, reply : BOOLEAN, add : BOOLEAN]

RECURSIVE InsertAll(_, _)
InsertAll(q, es) == IF es = <<>> THEN q ELSE InsertAll(Insert(q, Head(es)), Tail(es))

\* Endpoint.ack(): session.acknowledge() acknowledges every message of the
\* session that was fetched and is not acknowledged yet.
ack(ackd, unackd) == ackd \cup unackd

\* ------------------------------------------------------- ReceiverThread

\* A loop that never looks at the flag.
whileRunForever(flag) == TRUE

\* ReceiverThread.run, line 60: while self.__run
whileRun(flag) == flag

\* A loop that ends when the consumer raises.
caughtEnds(raised) == IF raised THEN "done" ELSE "loop"

\* ReceiverThread.run, lines 64-69: where the thread is after an iteration in
\* which consumer.received returned or raised an Exception, which is logged.
caught(raised) == "loop"

\* One iteration of ReceiverThread.run in which fetch returns a message: the
\* message is handed to consumer.received; an exception is logged.
RunReceived ==
    /\ pc = "loop" /\ whileRun(run)
    /\ Len(inbox) < MaxRequests
    /\ \E m \in Messages(Len(inbox) + 1), f \in Failures :
         LET r == received(m, now, f) IN
         /\ inbox' = Append(inbox, Received(m, now))
         /\ outbound' = outbound \o r.eff.out
         /\ pending' = InsertAll(pending, r.eff.add)
         /\ invoked' = invoked \o r.eff.invoked
         /\ log' = log \cup r.eff.log
                       \cup (IF r.eff.raised THEN {<<"failed", m.sn>>} ELSE {})
         /\ acked' = IF r.ack THEN ack(acked, unacked \cup {m.sn}) ELSE acked
         /\ unacked' = IF r.ack THEN {} ELSE unacked \cup {m.sn}
         /\ pc' = caught(r.eff.raised)
    /\ UNCHANGED <<now, run>>
    /\ UNCHANGED nonServerVars

\* One iteration in which fetch(timeout=1) raises Empty after one second.
RunEmpty ==
    /\ pc = "loop" /\ whileRun(run)
    /\ now < MaxTime
    /\ now' = now + 1
    /\ UNCHANGED <<run, pc, inbox, acked, unacked, outbound, pending, invoked, log>>
    /\ UNCHANGED nonServerVars

\* The while test fails: the thread ends.
RunExit ==
    /\ pc = "loop" /\ ~whileRun(run)
    /\ pc' = "done"
    /\ UNCHANGED <<now, run, inbox, acked, unacked, outbound, pending, invoked, log>>
    /\ UNCHANGED nonServerVars

\* ReceiverThread.stop
Stop ==
    /\ run
    /\ run' = FALSE
    /\ UNCHANGED <<now, pc, inbox, acked, unacked, outbound, pending, invoked, log>>
    /\ UNCHANGED nonServerVars

\* The pending receiver: the head of the pending queue, once its window has
\* begun, is handed back to RequestConsumer.dispatch and removed.
PendingDeliver ==
    /\ pending # <<>>
    /\ ~WindowFuture(Head(pending).window, now)
    /\ \E f \in Failures :
         LET d == dispatch(Head(pending), now, f) IN
         /\ outbound' = outbound \o d.out
         /\ invoked' = invoked \o d.invoked
         /\ log' = log \cup d.log
    /\ pending' = Tail(pending)
    /\ UNCHANGED <<now, run, pc, inbox, acked, unacked>>
    /\ UNCHANGED nonServerVars

\* Time passes.
Tick ==
    /\ now < MaxTime
    /\ now' = now + 1
    /\ UNCHANGED <<run, pc, inbox, acked, unacked, outbound, pending, invoked, log>>
    /\ UNCHANGED nonServerVars

\* ------------------------------------------------------------ client side

\* Number of Synchronous policy objects, calls of send, and envelopes that
\* arrive on the reply queue during one call.
MaxPolicies == 2
MaxCalls == 2
MaxQueue == 3

\* Synchronous.TIMEOUT
TIMEOUT == <<10, 90>>

\* options.timeout: None (<<>>), a scalar (<<t>>) or a pair.
TimeoutOptions == {<<>>, <<1>>, <<1, 2>>}

\* timeout(options, none)
timeout(tm, none) ==
    IF tm = <<>> THEN none
    ELSE IF Len(tm) = 2 THEN tm
    ELSE <<tm[1], tm[1]>>

\* What arrives on the reply queue: an envelope, delay seconds after the
\* reader started to wait for it; or, instead of a message, a transport error
\* raised by receiver.fetch.
Item(sn, status, result, delay) ==
    [sn |-> sn, status |-> status, result |-> result, delay |-> delay, fetch |-> "ok"]
FetchError ==
    [sn |-> 0, status |-> None, result |-> NoResult, delay |-> 0, fetch |-> "error"]
\* None, as an envelope.
NoEnvelope ==
    [sn |-> 0, status |-> None, result |-> NoResult, delay |-> 0, fetch |-> "empty"]

Delays == {0, 2}

\* The script of a reply queue.  sn = 1 stands for the serial number of the
\* request of the call, sn = 0 for another one (no request has it).
\* The replies to the request: STARTED, a succeeded or a failed result.
StartedItems == { Item(1, "started", NoResult, d) : d \in Delays }
ResultItems ==
    { Item(1, None, r, d) : r \in {ReturnSucceeded("hi"), ReturnException("ValueError")},
                            d \in Delays }
\* An envelope with another serial number, and an error of fetch.
OtherItems == { Item(0, None, ReturnSucceeded("old"), 2), FetchError }

QueueItems == StartedItems \cup ResultItems \cup OtherItems

\* The reply queues a server can produce for a request: at most one STARTED
\* and at most one result for it, STARTED first, among other traffic.
Scripts ==
    { q \in UNION { [1..n -> QueueItems] : n \in 0..MaxQueue } :
        \A i, j \in DOMAIN q :
            (i < j /\ q[i].sn = 1 /\ q[j].sn = 1) =>
                (q[i].status = "started" /\ q[j].status = None)
    }

\* The script q as it arrives for the request with serial number sn.
Arriving(q, sn) ==
    [i \in DOMAIN q |-> IF q[i].sn = 1 THEN [q[i] EXCEPT !.sn = sn] ELSE q[i]]

\* ------------------------------------------------------------------ Reader

\* A reader on a reply queue: the items still to arrive, the number of
\* messages fetched, the number of those acknowledged, and the time spent in
\* fetch.
ReaderOn(q) == [q |-> q, nread |-> 0, nacked |-> 0, spent |-> 0]

\* Endpoint.ack() on the reader: every message fetched so far is acknowledged.
readerAck(r) == [r EXCEPT !.nacked = r.nread]

\* Reader.next(timeout): the next envelope, or None when fetch raises Empty;
\* any other error of fetch propagates.
next(r, tmo) ==
    IF r.q = <<>>
    THEN [envelope |-> NoEnvelope, raised |-> FALSE,
          r |-> [r EXCEPT !.spent = @ + tmo]]
    ELSE LET h == Head(r.q) IN
         IF h.delay > tmo
         THEN [envelope |-> NoEnvelope, raised |-> FALSE,
               r |-> [r EXCEPT !.spent = @ + tmo,
                               !.q = <<[h EXCEPT !.delay = @ - tmo]>> \o Tail(r.q)]]
         ELSE IF h.fetch = "error"
         THEN [envelope |-> NoEnvelope, raised |-> TRUE,
               r |-> [r EXCEPT !.spent = @ + h.delay, !.q = Tail(r.q)]]
         ELSE [envelope |-> h, raised |-> FALSE,
               r |-> [r EXCEPT !.spent = @ + h.delay, !.q = Tail(r.q),
                               !.nread = @ + 1]]

\* A search that returns the first envelope it reads, whatever its sn.
searchFirst(sn, tmo, r) == next(r, tmo)

RECURSIVE search(_, _, _)
\* Reader.search(sn, timeout): reads envelopes until one has the serial
\* number sn; the others are acknowledged and discarded.
search(sn, tmo, r) ==
    LET n == next(r, tmo) IN
    IF n.raised THEN n
    ELSE IF n.envelope = NoEnvelope THEN n
    ELSE IF sn = n.envelope.sn THEN n
    ELSE search(sn, tmo, readerAck(n.r))

\* --------------------------------------------------------------- Synchronous

\* How a call ends: a value returned or an exception raised.
NoOutcome == [kind |-> "none", val |-> "", sn |-> 0, index |-> 0]
Returned(v) == [kind |-> "return", val |-> v, sn |-> 0, index |-> 0]
RemoteException(v) == [kind |-> "RemoteException", val |-> v, sn |-> 0, index |-> 0]
RequestTimeout(sn, index) ==
    [kind |-> "RequestTimeout", val |-> "", sn |-> sn, index |-> index]
Raised(what) == [kind |-> "error", val |-> what, sn |-> 0, index |-> 0]

\* What a search returned, and the reader's counters when it returned.
Snapshot(s) ==
    [ran |-> TRUE, envelope |-> s.envelope, raised |-> s.raised,
     nread |-> s.r.nread, nacked |-> s.r.nacked, spent |-> s.r.spent]
NoSearch ==
    [ran |-> FALSE, envelope |-> NoEnvelope, raised |-> FALSE,
     nread |-> 0, nacked |-> 0, spent |-> 0]

\* An __onreply that takes every reply for a success.
onreplyAlwaysValue(envelope) == Returned(envelope.result.val)

\* Synchronous.__onreply: the value of a succeeded Return, RemoteException
\* for any other.
onreply(envelope) ==
    IF envelope.result.tag = "retval"
    THEN Returned(envelope.result.val)
    ELSE RemoteException(envelope.result.val)

\* Synchronous.__getstarted: exc is the exception raised, or NoOutcome when it
\* returns; the value of __onreply is not returned to the caller.
getstarted(sn, tmo, r) ==
    LET s == search(sn, tmo[1], r) IN
    IF s.raised
    THEN [r |-> s.r, exc |-> Raised("transport"), s |-> Snapshot(s)]
    ELSE IF s.envelope # NoEnvelope
    THEN IF s.envelope.status # None
         THEN [r |-> readerAck(s.r), exc |-> NoOutcome, s |-> Snapshot(s)]
         ELSE LET o == onreply(s.envelope) IN
              [r |-> readerAck(s.r),
               exc |-> IF o.kind = "return" THEN NoOutcome ELSE o,
               s |-> Snapshot(s)]
    ELSE [r |-> s.r, exc |-> RequestTimeout(sn, 0), s |-> Snapshot(s)]

\* Synchronous.__getreply: out is the value returned or the exception raised.
getreply(sn, tmo, r) ==
    LET s == search(sn, tmo[2], r) IN
    IF s.raised
    THEN [r |-> s.r, out |-> Raised("transport"), s |-> Snapshot(s)]
    ELSE IF s.envelope # NoEnvelope
    THEN [r |-> readerAck(s.r), out |-> onreply(s.envelope), s |-> Snapshot(s)]
    ELSE [r |-> s.r, out |-> RequestTimeout(sn, 1), s |-> Snapshot(s)]

\* The record of one call of Synchronous.send.
Call(policy, sn, tmo, q, reader, s1, s2, r, outcome) ==
    [policy |-> policy, sn |-> sn, tmo |-> tmo, queue |-> q, reader |-> reader,
     s1 |-> s1, s2 |-> s2, nread |-> r.nread, nacked |-> r.nacked,
     spent |-> r.spent, outcome |-> outcome]

NoCall == Call(0, 0, <<0, 0>>, <<>>, "none", NoSearch, NoSearch, ReaderOn(<<>>), NoOutcome)

\* Synchronous.send on policy number p, whose request gets the serial number
\* sn and whose reply queue receives q.  f says which calls into the
\* transport fail: f.send (producer.send raises), f.open (reader.open raises).
\* reader is "none" (not constructed), "unopened" (open raised), or "closed"
\* (reader.close() was called).
send(p, sn, tmo, q, f) ==
    IF f.send
    THEN Call(p, sn, tmo, q, "none", NoSearch, NoSearch, ReaderOn(q), Raised("send"))
    ELSE IF f.open
    THEN Call(p, sn, tmo, q, "unopened", NoSearch, NoSearch, ReaderOn(q), Raised("open"))
    ELSE LET g == getstarted(sn, tmo, ReaderOn(q)) IN
         IF g.exc # NoOutcome
         THEN Call(p, sn, tmo, q, "closed", g.s, NoSearch, g.r, g.exc)
         ELSE LET h == getreply(sn, tmo, g.r) IN
              Call(p, sn, tmo, q, "closed", g.s, h.s, h.r, h.out)

SendFailures == [send : BOOLEAN, open : BOOLEAN]

\* Synchronous.__init__: the timeout from the options, and a queue named by a
\* fresh uuid.
NewSynchronous ==
    /\ Len(policies) < MaxPolicies
    /\ policies' = Append(policies, [queue |-> uuid + 1,
                                     timeout |-> timeout(options, TIMEOUT)])
    /\ uuid' = uuid + 1
    /\ UNCHANGED <<options, arrivals, sent, last>>
    /\ UNCHANGED nonClientVars

\* A call of Synchronous.send on one of the policy objects.  The producer
\* names the request by a fresh uuid.
SyncSend ==
    /\ Len(sent) < MaxCalls
    /\ \E p \in DOMAIN policies, f \in SendFailures :
         LET sn == uuid + 1 IN
            /\ sent' = Append(sent, [sn |-> sn, replyto |-> policies[p].queue,
                                     ttl |-> policies[p].timeout[1]])
            /\ last' = send(p, sn, policies[p].timeout, Arriving(arrivals, sn), f)
    /\ uuid' = uuid + 1
    /\ UNCHANGED <<options, arrivals, policies>>
    /\ UNCHANGED nonClientVars

ClientInit ==
    /\ options \in TimeoutOptions
    /\ arrivals \in Scripts
    /\ uuid = 0
    /\ policies = <<>>
    /\ sent = <<>>
    /\ last = NoCall

ClientNext ==
    \/ NewSynchronous
    \/ SyncSend


\* ---------------------------------------- client side: Asynchronous, Trigger

\* Number of triggers Asynchronous.send constructs, and number of invocations
\* of triggers begun.
MaxTriggers == 1
MaxInvocations == 3

\* The threads of the process that hold the policy and its triggers.
Threads == {"t1", "t2"}

\* Python's None, for a number-valued field (a timeout).
Nil == -1

\* options.ctag: None, the empty string or a queue name.
CTags == {None, "", "C"}

\* The options an Asynchronous policy is constructed with.
AsyncOptions ==
    [ctag : CTags, timeout : TimeoutOptions, trigger : BOOLEAN,
     watchdog : {None, "watchdog"}]

\* Asynchronous.__init__
Asynchronous(o) ==
    [ctag |-> o.ctag, timeout |-> timeout(o.timeout, <<Nil, Nil>>),
     delayed |-> o.trigger, watchdog |-> o.watchdog]

\* Asynchronous.replyto: str(Queue(ctag)) when ctag is set (not None and not
\* empty), else None.
replyto(policy) ==
    IF policy.ctag # None /\ policy.ctag # "" THEN policy.ctag ELSE None

\* A notifywatchdog that does not ask whether there is a watchdog.
notifywatchdogAlways(policy, sn, rt, any) ==
    IF /\ rt # None /\ rt # ""
       /\ policy.timeout[1] # Nil
       /\ policy.timeout[2] # Nil
    THEN << [sn |-> sn, replyto |-> rt, any |-> any, timeout |-> policy.timeout] >>
    ELSE <<>>

\* Asynchronous.notifywatchdog: the calls of watchdog.track it makes.
notifywatchdog(policy, sn, rt, any) ==
    IF /\ rt # None /\ rt # ""
       /\ policy.ctag # None /\ policy.ctag # ""
       /\ policy.timeout[1] # Nil
       /\ policy.timeout[2] # Nil
       /\ policy.watchdog # None
    THEN << [sn |-> sn, replyto |-> rt, any |-> any, timeout |-> policy.timeout] >>
    ELSE <<>>

\* Trigger.__init__
Trigger(sn, destination) ==
    [pending |-> TRUE, sn |-> sn, destination |-> destination, any |-> "any"]

\* A __send that gives the request a serial number of its own.
TriggerSentOwnSn(policy, trigger) ==
    [destination |-> trigger.destination, sn |-> trigger.sn + 1,
     ttl |-> policy.timeout[1], replyto |-> replyto(policy)]

\* Trigger.__send: the request handed to producer.send.
TriggerSent(policy, trigger) ==
    [destination |-> trigger.destination, sn |-> trigger.sn,
     ttl |-> policy.timeout[1], replyto |-> replyto(policy)]

\* A trigger that is marked although __send raised.
unsentExecuted(trigger) == [trigger EXCEPT !.pending = FALSE]

\* Trigger.__call__, lines 370-371: __send raised, the assignment after it is
\* not reached.
unsent(trigger) == trigger

\* A trigger that stays pending after it was sent.
executedNot(trigger) == trigger

\* Trigger.__call__, line 371: self.__pending = False
executed(trigger) == [trigger EXCEPT !.pending = FALSE]

Idle == [at |-> "idle", trigger |-> 0]
Event(kind, t, i) == [kind |-> kind, thread |-> t, trigger |-> i]

\* Asynchronous.send.  With options.trigger the new trigger is returned; else
\* it is invoked by the caller, which alone holds it, and its sn is returned,
\* or producer.send raises.
AsyncSend ==
    /\ serial < MaxTriggers
    /\ serial' = serial + 1
    /\ LET trigger == Trigger(serial + 1, "D") IN
         IF apolicy.delayed
         THEN /\ triggers' = Append(triggers, trigger)
              /\ returned' = Append(returned, [kind |-> "trigger", sn |-> trigger.sn])
              /\ UNCHANGED <<wire, tracked>>
         ELSE \E fails \in BOOLEAN :
                IF fails
                THEN /\ returned' = Append(returned, [kind |-> "raised", sn |-> trigger.sn])
                     /\ UNCHANGED <<triggers, wire, tracked>>
                ELSE /\ wire' = Append(wire, TriggerSent(apolicy, trigger))
                     /\ tracked' = tracked \o notifywatchdog(apolicy, trigger.sn,
                                                             replyto(apolicy), trigger.any)
                     /\ returned' = Append(returned, [kind |-> "sn", sn |-> trigger.sn])
                     /\ UNCHANGED triggers
    /\ UNCHANGED <<apolicy, tpc, events>>
    /\ UNCHANGED nonAsyncVars

\* Number of calls of Asynchronous.broadcast, and number of uuids the calls
\* of broadcast and send may use up together.
MaxBroadcasts == 2
MaxSerial == 3

\* The destinations a request is broadcast to.
DestinationLists ==
    {<<>>, <<"D">>, <<"D", "E">>, <<"E", "D">>, <<"D", "D">>}

\* The calls of watchdog.track made for the first n of the triggers ts.
RECURSIVE TrackAll(_, _, _)
TrackAll(policy, ts, n) ==
    IF n = 0 THEN <<>>
    ELSE TrackAll(policy, ts, n - 1)
            \o notifywatchdog(policy, ts[n].sn, replyto(policy), ts[n].any)

\* A broadcast whose triggers all carry the serial number of the first.
broadcastTriggersSameSn(first, destinations) ==
    [i \in DOMAIN destinations |-> Trigger(first, destinations[i])]

\* Asynchronous.broadcast, lines 256-259: one trigger for each destination,
\* each with a fresh uuid, the first of which is `first`.
broadcastTriggers(first, destinations) ==
    [i \in DOMAIN destinations |-> Trigger(first + i - 1, destinations[i])]

\* Asynchronous.broadcast.  With options.trigger the triggers are returned;
\* else they are invoked in order and their serial numbers returned, unless
\* producer.send raises for the failat-th of them (0: for none), which ends
\* the call.
AsyncBroadcast ==
    /\ Cardinality({ k \in DOMAIN returned : "destinations" \in DOMAIN returned[k] })
          < MaxBroadcasts
    /\ \E destinations \in DestinationLists :
         /\ serial + Len(destinations) <= MaxSerial
         /\ serial' = serial + Len(destinations)
         /\ LET ts == broadcastTriggers(serial + 1, destinations)
                sns == [i \in DOMAIN ts |-> ts[i].sn]
            IN
            IF apolicy.delayed
            THEN /\ triggers' = triggers \o ts
                 /\ returned' = Append(returned, [kind |-> "triggers", sns |-> sns,
                                                  destinations |-> destinations])
                 /\ UNCHANGED <<wire, tracked>>
            ELSE \E failat \in 0..Len(destinations) :
                   LET n == IF failat = 0 THEN Len(destinations) ELSE failat - 1 IN
                   /\ wire' = wire \o [i \in 1..n |-> TriggerSent(apolicy, ts[i])]
                   /\ tracked' = tracked \o TrackAll(apolicy, ts, n)
                   /\ returned' = Append(returned,
                                         [kind |-> IF failat = 0 THEN "sns" ELSE "raised all",
                                          sns |-> sns, destinations |-> destinations])
                   /\ UNCHANGED triggers
    /\ UNCHANGED <<apolicy, tpc, events>>
    /\ UNCHANGED nonAsyncVars

\* The invocations of triggers begun so far.
Begun == { k \in DOMAIN events : events[k].kind \in {"enter", "already"} }

\* Trigger.__call__, line 369: a thread invokes a trigger and tests __pending.
\* It goes on to __send, or raises 'trigger already executed'.
TriggerCall ==
    /\ Cardinality(Begun) < MaxInvocations
    /\ \E t \in Threads, i \in DOMAIN triggers :
         /\ tpc[t] = Idle
         /\ IF triggers[i].pending
            THEN /\ tpc' = [tpc EXCEPT ![t] = [at |-> "send", trigger |-> i]]
                 /\ events' = Append(events, Event("enter", t, i))
            ELSE /\ events' = Append(events, Event("already", t, i))
                 /\ UNCHANGED tpc
    /\ UNCHANGED <<apolicy, serial, triggers, wire, tracked, returned>>
    /\ UNCHANGED nonAsyncVars

\* Trigger.__send: producer.send, which may raise, then notifywatchdog.
TriggerSend ==
    /\ \E t \in Threads, fails \in BOOLEAN :
         /\ tpc[t].at = "send"
         /\ LET i == tpc[t].trigger IN
              IF fails
              THEN /\ tpc' = [tpc EXCEPT ![t] = Idle]
                   /\ events' = Append(events, Event("raised", t, i))
                   /\ triggers' = [triggers EXCEPT ![i] = unsent(@)]
                   /\ UNCHANGED <<wire, tracked>>
              ELSE /\ wire' = Append(wire, TriggerSent(apolicy, triggers[i]))
                   /\ tracked' = tracked \o notifywatchdog(apolicy, triggers[i].sn,
                                                           replyto(apolicy), triggers[i].any)
                   /\ tpc' = [tpc EXCEPT ![t] = [at |-> "clear", trigger |-> i]]
                   /\ events' = Append(events, Event("sent", t, i))
                   /\ UNCHANGED triggers
    /\ UNCHANGED <<apolicy, serial, returned>>
    /\ UNCHANGED nonAsyncVars

\* Trigger.__call__, line 371: back from __send, the trigger is marked.
TriggerDone ==
    /\ \E t \in Threads :
         /\ tpc[t].at = "clear"
         /\ triggers' = [triggers EXCEPT ![tpc[t].trigger] = executed(@)]
         /\ tpc' = [tpc EXCEPT ![t] = Idle]
         /\ events' = Append(events, Event("done", t, tpc[t].trigger))
    /\ UNCHANGED <<apolicy, serial, wire, tracked, returned>>
    /\ UNCHANGED nonAsyncVars

\* No policy constructed, no thread running.
AsyncIdle ==
    /\ apolicy = None
    /\ serial = 0
    /\ triggers = <<>>
    /\ tpc = <<>>
    /\ wire = <<>>
    /\ tracked = <<>>
    /\ returned = <<>>
    /\ events = <<>>

AsyncInit ==
    /\ apolicy \in { Asynchronous(o) : o \in AsyncOptions }
    /\ serial = 0
    /\ triggers = <<>>
    /\ tpc = [t \in Threads |-> Idle]
    /\ wire = <<>>
    /\ tracked = <<>>
    /\ returned = <<>>
    /\ events = <<>>

AsyncNext ==
    \/ AsyncSend
    \/ TriggerCall
    \/ TriggerSend
    \/ TriggerDone

\* ------------------------------------------------- qpid adapter: Connection

\* Number of RealConnection objects constructed.
MaxConnections == 3

\* The broker urls in use.
Urls == {"amqp://a", "amqp://b"}

\* ThreadSingleton: Connection(url) is one object for each thread and url.
Instances == Threads \X Urls

\* Connection.is_open
is_open(impl) == impl # Nil

\* A close that lets the error of the RealConnection's close out and keeps
\* the connection.
closeRaising(impl, fails) ==
    IF is_open(impl) /\ fails
    THEN [impl |-> impl, raised |-> TRUE, closed |-> FALSE]
    ELSE [impl |-> Nil, raised |-> FALSE, closed |-> is_open(impl)]

\* Connection.close on an object whose _impl is impl: the _impl it leaves,
\* whether it raises, and whether the RealConnection was closed.  fails: the
\* RealConnection's close raises.  With _impl None, None.close() raises
\* AttributeError, which is swallowed like any Exception.
close(impl, fails) ==
    [impl |-> Nil, raised |-> FALSE, closed |-> is_open(impl) /\ ~fails]

\* No close called yet.
NoClose ==
    [ran |-> FALSE, instance |-> <<>>, was |-> Nil, fails |-> FALSE,
     after |-> Nil, raised |-> FALSE, again |-> FALSE]

\* Connection.__init__ of every instance: _impl = None.
ConnInit ==
    /\ conns = [c \in Instances |-> Nil]
    /\ real = <<>>
    /\ lastclose = NoClose

\* Connection.open by thread t on its Connection(url): nothing when it is
\* open; else a RealConnection is constructed and attached, and kept unless
\* attach raised.
ConnOpen ==
    /\ \E t \in Threads, url \in Urls, fails \in BOOLEAN :
         LET c == <<t, url>> IN
           IF is_open(conns[c])
           THEN UNCHANGED <<conns, real>>
           ELSE /\ Len(real) < MaxConnections
                /\ real' = Append(real, [url |-> url,
                                         state |-> IF fails THEN "failed" ELSE "attached"])
                /\ conns' = IF fails THEN conns
                            ELSE [conns EXCEPT ![c] = Len(real) + 1]
    /\ UNCHANGED lastclose
    /\ UNCHANGED nonConnVars

\* Connection.close by thread t on its Connection(url): _impl is forgotten,
\* and an error of the RealConnection's close is swallowed.
ConnClose ==
    /\ \E t \in Threads, url \in Urls, fails \in BOOLEAN :
         LET c == <<t, url>>
             r == close(conns[c], fails)
         IN
           /\ conns' = [conns EXCEPT ![c] = r.impl]
           /\ real' = IF r.closed
                      THEN [real EXCEPT ![conns[c]].state = "closed"]
                      ELSE real
           /\ lastclose' = [ran |-> TRUE, instance |-> c, was |-> conns[c],
                            fails |-> fails, after |-> r.impl, raised |-> r.raised,
                            again |-> lastclose.ran /\ lastclose.instance = c
                                       /\ ~is_open(conns[c])]
    /\ UNCHANGED nonConnVars

ConnNext ==
    \/ ConnOpen
    \/ ConnClose

\* ------------------------------------------------------ qpid transport: Reader

\* Number of receivers created on the session, and of calls of Reader.next.
MaxReceivers == 2
MaxReads == 2

\* What receiver.fetch does: it returns a message that is fine, one that
\* fails auth.validate, or one that fails model.validate; or it raises Empty
\* or another transport error.
FetchKinds == {"ok", "authfail", "invalid", "empty", "error"}

\* What a call gives back: a value (None included) or an exception, and the
\* messages it acknowledged.
Gave(ret, raised, acks) == [ret |-> ret, raised |-> raised, acks |-> acks]

\* Reader.get, given whether its open() raised, what fetch did, and the id
\* of the message fetched.
get(openfails, kind, id) ==
    IF openfails \/ kind \in {"empty", "error"}
    THEN Gave(None, None, <<>>)
    ELSE IF kind = "authfail"
         THEN Gave(None, "ValidationFailed", <<id>>)
         ELSE Gave("message", None, <<>>)

\* A next that returns the envelope of a request that is not valid.
next_qpidUnchecked(openfails, kind, id) ==
    LET g == get(openfails, kind, id) IN
    IF g.ret = "message" THEN Gave("envelope", None, <<>>) ELSE g

\* Reader.next of the qpid transport
next_qpid(openfails, kind, id) ==
    LET g == get(openfails, kind, id) IN
    IF g.raised # None THEN g
    ELSE IF g.ret = "message"
         THEN IF kind = "invalid"
              THEN Gave(None, "InvalidRequest", <<id>>)
              ELSE Gave("envelope", None, <<>>)
         ELSE Gave(None, None, <<>>)

\* An open that never finds the reader open.
alreadyOpenedNever(flag) == FALSE

\* Reader.open, line 81: if self.__opened
alreadyOpened(flag) == flag

\* Endpoint._lock: the mutex is free.
CanLock(lock, t) == lock = None

\* The receivers that are open.
Live == { k \in DOMAIN receivers : receivers[k] }

RIdle == "idle"

\* Reader.__init__
ReaderInit ==
    /\ opened = FALSE
    /\ receivers = <<>>
    /\ rsession = FALSE
    /\ rlock = None
    /\ rpc = [t \in Threads |-> RIdle]
    /\ ropened = {}
    /\ fetched = 0
    /\ racked = <<>>
    /\ reads = <<>>

\* Reader.open, lines 78-79: Endpoint.open, then the mutex is taken.
ReaderOpenLock ==
    /\ \E t \in Threads :
         /\ rpc[t] = RIdle
         /\ CanLock(rlock, t)
         /\ rlock' = t
         /\ rpc' = [rpc EXCEPT ![t] = "open"]
    /\ UNCHANGED <<opened, receivers, rsession, ropened, fetched, racked, reads>>
    /\ UNCHANGED nonReaderVars

\* Reader.open, lines 81-82: the test of __opened; an open reader is left
\* as it is and the mutex released.
ReaderOpenTest ==
    /\ \E t \in Threads :
         /\ rpc[t] = "open"
         /\ IF alreadyOpened(opened)
            THEN /\ rpc' = [rpc EXCEPT ![t] = RIdle]
                 /\ rlock' = None
                 /\ ropened' = ropened \cup {t}
            ELSE /\ rpc' = [rpc EXCEPT ![t] = "receiver"]
                 /\ UNCHANGED <<rlock, ropened>>
    /\ UNCHANGED <<opened, receivers, rsession, fetched, racked, reads>>
    /\ UNCHANGED nonReaderVars

\* Reader.open, lines 83-88: the session is taken from the endpoint, a
\* receiver is created on it unless session.receiver raises, and the mutex is
\* released.
ReaderOpenReceiver ==
    /\ \E t \in Threads, fails \in BOOLEAN :
         /\ rpc[t] = "receiver"
         /\ rsession' = TRUE
         /\ IF fails
            THEN UNCHANGED <<opened, receivers, ropened>>
            ELSE /\ Len(receivers) < MaxReceivers
                 /\ receivers' = Append(receivers, TRUE)
                 /\ opened' = TRUE
                 /\ ropened' = ropened \cup {t}
         /\ rpc' = [rpc EXCEPT ![t] = RIdle]
         /\ rlock' = None
    /\ UNCHANGED <<fetched, racked, reads>>
    /\ UNCHANGED nonReaderVars

\* Reader.close, line 94: the mutex is taken.
ReaderCloseLock ==
    /\ \E t \in Threads :
         /\ rpc[t] = RIdle
         /\ CanLock(rlock, t)
         /\ rlock' = t
         /\ rpc' = [rpc EXCEPT ![t] = "close"]
    /\ UNCHANGED <<opened, receivers, rsession, ropened, fetched, racked, reads>>
    /\ UNCHANGED nonReaderVars

\* Reader.close, lines 96-101: a reader that is not open is left as it is and
\* close returns; else the receiver is closed, and unless that raises the
\* reader is marked and close goes on to Endpoint.close.  The mutex is
\* released.
ReaderCloseReceiver ==
    /\ \E t \in Threads, fails \in BOOLEAN :
         /\ rpc[t] = "close"
         /\ IF ~opened \/ fails
            THEN /\ rpc' = [rpc EXCEPT ![t] = RIdle]
                 /\ UNCHANGED <<opened, receivers, ropened>>
            ELSE /\ receivers' = [receivers EXCEPT ![Len(receivers)] = FALSE]
                 /\ opened' = FALSE
                 /\ ropened' = {}
                 /\ rpc' = [rpc EXCEPT ![t] = "endpoint"]
         /\ rlock' = None
    /\ UNCHANGED <<rsession, fetched, racked, reads>>
    /\ UNCHANGED nonReaderVars

\* Reader.close, line 102: Endpoint.close releases the session.
ReaderCloseEndpoint ==
    /\ \E t \in Threads :
         /\ rpc[t] = "endpoint"
         /\ rsession' = FALSE
         /\ rpc' = [rpc EXCEPT ![t] = RIdle]
    /\ UNCHANGED <<opened, receivers, rlock, ropened, fetched, racked, reads>>
    /\ UNCHANGED nonReaderVars

\* Reader.next by a thread, the mutex being free: get opens the reader when
\* it is not open, which may raise, and fetches.
ReaderNext ==
    /\ Len(reads) < MaxReads
    /\ rlock = None
    /\ \E t \in Threads, openfails \in BOOLEAN, kind \in FetchKinds :
         /\ rpc[t] = RIdle
         /\ openfails => ~opened
         /\ (~opened /\ ~openfails) => Len(receivers) < MaxReceivers
         /\ LET id == fetched + 1
                r == next_qpid(openfails, kind, id)
                got == ~openfails /\ kind \in {"ok", "authfail", "invalid"}
            IN  /\ rsession' = (rsession \/ ~opened)
                /\ opened' = (opened \/ ~openfails)
                /\ receivers' = IF ~opened /\ ~openfails
                                THEN Append(receivers, TRUE) ELSE receivers
                /\ ropened' = IF openfails THEN ropened ELSE ropened \cup {t}
                /\ fetched' = IF got THEN id ELSE fetched
                /\ racked' = racked \o r.acks
                /\ reads' = Append(reads, [openfails |-> openfails,
                                           kind |-> IF openfails THEN "none" ELSE kind,
                                           id |-> IF got THEN id ELSE 0,
                                           gave |-> r])
    /\ UNCHANGED <<rlock, rpc>>
    /\ UNCHANGED nonReaderVars

ReaderSteps ==
    \/ ReaderOpenLock
    \/ ReaderOpenTest
    \/ ReaderOpenReceiver
    \/ ReaderCloseLock
    \/ ReaderCloseReceiver
    \/ ReaderCloseEndpoint
    \/ ReaderNext

\* No connection object used.
ConnIdle ==
    /\ conns = <<>>
    /\ real = <<>>
    /\ lastclose = NoClose

\* No reader constructed.
ReaderIdle ==
    /\ opened = FALSE
    /\ receivers = <<>>
    /\ rsession = FALSE
    /\ rlock = None
    /\ rpc = <<>>
    /\ ropened = {}
    /\ fetched = 0
    /\ racked = <<>>
    /\ reads = <<>>

\* ------------------------------------------------------------------ specs

ServerInit ==
    /\ now = 0
    /\ run = TRUE
    /\ pc = "loop"
    /\ inbox = <<>>
    /\ acked = {}
    /\ unacked = {}
    /\ outbound = <<>>
    /\ pending = <<>>
    /\ invoked = <<>>
    /\ log = {}

ServerNext ==
    \/ RunReceived
    \/ RunEmpty
    \/ RunExit
    \/ Stop
    \/ PendingDeliver
    \/ Tick

ClientIdle ==
    /\ options = <<>>
    /\ arrivals = <<>>
    /\ uuid = 0
    /\ policies = <<>>
    /\ sent = <<>>
    /\ last = NoCall

vars == <<serverVars, clientVars, asyncVars, connVars, readerVars>>

\* The request consumer; the client is not used.
Init == ServerInit /\ ClientIdle /\ AsyncIdle /\ ConnIdle /\ ReaderIdle

Next == ServerNext

Spec == Init /\ [][Next]_vars

\* The request consumer, its thread being scheduled: when the while test
\* fails the thread ends.
SpecStop == Init /\ [][Next]_vars /\ WF_vars(RunExit)

\* The synchronous policy; the server is not used.
InitSync == ServerInit /\ ClientInit /\ AsyncIdle /\ ConnIdle /\ ReaderIdle

NextSync == ClientNext

SpecSync == InitSync /\ [][NextSync]_vars

\* The asynchronous policy: send, and the triggers it returns, invoked by
\* several threads.
InitAsync == ServerInit /\ ClientIdle /\ AsyncInit /\ ConnIdle /\ ReaderIdle

NextAsync == AsyncNext

SpecAsync == InitAsync /\ [][NextAsync]_vars

\* The asynchronous policy: send and broadcast.  The triggers they return
\* are not invoked.
NextBroadcast ==
    \/ AsyncSend
    \/ AsyncBroadcast

SpecBroadcast == InitAsync /\ [][NextBroadcast]_vars

\* The Connection objects of the threads.
InitConn == ServerInit /\ ClientIdle /\ AsyncIdle /\ ConnInit /\ ReaderIdle

NextConn == ConnNext

SpecConn == InitConn /\ [][NextConn]_vars

\* One qpid Reader, used by several threads.
InitReader == ServerInit /\ ClientIdle /\ AsyncIdle /\ ConnIdle /\ ReaderInit

NextReader == ReaderSteps

SpecReader == InitReader /\ [][NextReader]_vars

\* ------------------------------------------------ server side: the claims

Range(q) == { q[i] : i \in DOMAIN q }

\* The STARTED envelopes, and the envelopes carrying a result, sent for sn.
Started(sn) ==
    { i \in DOMAIN outbound : outbound[i].sn = sn /\ outbound[i].status = "started" }
Results(sn) ==
    { i \in DOMAIN outbound : outbound[i].sn = sn /\ outbound[i].result # NoResult }

\* The requests the dispatcher was invoked for that carry a replyto.
DispatchedWithReplyTo ==
    { i \in DOMAIN inbox : inbox[i].sn \in Range(invoked) /\ inbox[i].replyto # None }

\* C1 as stated: for every dispatched request with serial number S and
\* replyto R the server has emitted, on R and with sn = S, at most one STARTED
\* envelope and exactly one envelope carrying a result.
C1_ExactlyOneResult ==
    \A i \in DispatchedWithReplyTo :
        /\ Cardinality(Started(inbox[i].sn)) <= 1
        /\ Cardinality(Results(inbox[i].sn)) = 1
        /\ \A j \in Started(inbox[i].sn) \cup Results(inbox[i].sn) :
               outbound[j].to = inbox[i].replyto

\* C1 amended: for every dispatched request with serial number S and replyto
\* R the server has emitted, on R and with sn = S, at most one STARTED
\* envelope and at most one envelope carrying a result: exactly one when the
\* send of the reply did not fail, none when it failed (the failure is logged
\* and the send is not retried).
C1_AtMostOneResult ==
    \A i \in DispatchedWithReplyTo :
        /\ Cardinality(Started(inbox[i].sn)) <= 1
        /\ Cardinality(Results(inbox[i].sn))
             = (IF <<"send failed", inbox[i].sn>> \in log THEN 0 ELSE 1)
        /\ \A j \in Started(inbox[i].sn) \cup Results(inbox[i].sn) :
               outbound[j].to = inbox[i].replyto

\* C1 witness: after two requests, one was dispatched and answered with a
\* STARTED and a result envelope, and the reply of another failed to send.
C1_Witness ==
    /\ Len(inbox) = MaxRequests
    /\ \E i \in DispatchedWithReplyTo :
           /\ Cardinality(Started(inbox[i].sn)) = 1
           /\ Cardinality(Results(inbox[i].sn)) = 1
    /\ \E i \in DispatchedWithReplyTo : <<"send failed", inbox[i].sn>> \in log

\* C2: for any serial number, a STARTED envelope is emitted strictly before
\* the envelope carrying the result, and none is emitted after it.
C2_StartedBeforeFinal ==
    \A i, j \in DOMAIN outbound :
        ( /\ outbound[i].sn = outbound[j].sn
          /\ outbound[i].status = "started"
          /\ outbound[j].result # NoResult ) => i < j

\* C2 witness: a STARTED and a result envelope were emitted for one serial
\* number, after the replies to an earlier request.
C2_Witness ==
    \E i, j \in DOMAIN outbound :
        /\ outbound[i].sn = outbound[j].sn
        /\ outbound[i].status = "started"
        /\ outbound[j].result # NoResult
        /\ i > 1

\* C4 as stated: every message handed to Consumer.received is acknowledged
\* once its processing has completed, whatever the outcome.
C4_AlwaysAcked ==
    \A i \in DOMAIN inbox : inbox[i].sn \in acked

\* The valid requests whose window was in the past when they were received.
PastRequests ==
    { i \in DOMAIN inbox :
        /\ inbox[i].content = "ok"
        /\ inbox[i].version = version
        /\ inbox[i].window # NoWindow
        /\ inbox[i].at > inbox[i].window[1] + inbox[i].window[2] }

\* C10 as stated: a request whose window is in the past is not handed to the
\* dispatcher, gets no STARTED envelope, is answered on its replyto by one
\* envelope carrying a failed Return (WindowMissed) with its sn, and is
\* acknowledged.
C10_MissedRepliedOnce ==
    \A i \in PastRequests :
        /\ inbox[i].sn \notin Range(invoked)
        /\ Started(inbox[i].sn) = {}
        /\ inbox[i].sn \in acked
        /\ inbox[i].replyto # None =>
             /\ Cardinality(Results(inbox[i].sn)) = 1
             /\ \A j \in Results(inbox[i].sn) :
                    /\ outbound[j].to = inbox[i].replyto
                    /\ outbound[j].result = ReturnException("WindowMissed")

\* C10 amended: a request whose window is in the past is not handed to the
\* dispatcher, gets no STARTED envelope and is acknowledged; the server makes
\* one attempt to reply: when the request carries a replyto and the send does
\* not fail, exactly one envelope carrying a failed Return (WindowMissed) with
\* its sn is emitted to the replyto, and otherwise none is.
C10_MissedReplyAttemptedOnce ==
    \A i \in PastRequests :
        /\ inbox[i].sn \notin Range(invoked)
        /\ Started(inbox[i].sn) = {}
        /\ inbox[i].sn \in acked
        /\ Cardinality(Results(inbox[i].sn))
             = (IF inbox[i].replyto = None \/ <<"send failed", inbox[i].sn>> \in log
                THEN 0 ELSE 1)
        /\ \A j \in Results(inbox[i].sn) :
               /\ outbound[j].to = inbox[i].replyto
               /\ outbound[j].result = ReturnException("WindowMissed")

\* C10 witness: a request with a past window was answered with WindowMissed.
C10_Witness ==
    \E i \in PastRequests :
        /\ inbox[i].replyto # None
        /\ Cardinality(Results(inbox[i].sn)) = 1
        /\ inbox[i].sn \in acked

\* The message just handed to Consumer.received, in a step that received one.
ReceivedOne == Len(inbox') = Len(inbox) + 1
JustReceived == inbox'[Len(inbox')]
\* It could be loaded and has the running version.
IsRequest(m) == m.content = "ok" /\ m.version = version
\* Its window, at the time it was received.
FutureAt(m) == m.window # NoWindow /\ m.at < m.window[1]
PastAt(m) == m.window # NoWindow /\ m.at > m.window[1] + m.window[2]
PresentAt(m) == ~FutureAt(m) /\ ~PastAt(m)

\* The entries of the pending queue for sn, in the next state.
PendingFor(q, sn) == { i \in DOMAIN q : q[i].sn = sn }

\* C11 as stated: a request whose window is in the future is added to the
\* pending queue exactly once and acknowledged, and on receipt no envelope is
\* emitted for it and the dispatcher is not invoked.
C11_FutureEnqueuedOnce ==
    [][ (ReceivedOne /\ IsRequest(JustReceived) /\ FutureAt(JustReceived)) =>
            /\ Cardinality(PendingFor(pending', JustReceived.sn)) = 1
            /\ JustReceived.sn \in acked'
            /\ outbound' = outbound
            /\ invoked' = invoked ]_vars

Mismatched ==
    { i \in DOMAIN inbox : inbox[i].content = "ok" /\ inbox[i].version # version }

\* C13: an envelope of another version is never dispatched (not enqueued as
\* pending, not handed to the dispatcher, no envelope emitted for it) and its
\* message is acknowledged.
C13_MismatchDropped ==
    \A i \in Mismatched :
        /\ inbox[i].sn \notin Range(invoked)
        /\ PendingFor(pending, inbox[i].sn) = {}
        /\ \A j \in DOMAIN outbound : outbound[j].sn # inbox[i].sn
        /\ inbox[i].sn \in acked

\* C13 witness: an envelope of another version whose window is yet to come
\* was received and acknowledged.
C13_Witness ==
    \E i \in Mismatched : FutureAt(inbox[i]) /\ inbox[i].sn \in acked

\* The requests received with neither replyto nor window.
FireAndForget ==
    { i \in DOMAIN inbox :
        IsRequest(inbox[i]) /\ inbox[i].replyto = None /\ inbox[i].window = NoWindow }

\* C14: a valid request with no replyto and no window is handed to the
\* dispatcher exactly once, no envelope is emitted for it, and its message is
\* acknowledged.
C14_FireAndForget ==
    \A i \in FireAndForget :
        /\ Cardinality({ k \in DOMAIN invoked : invoked[k] = inbox[i].sn }) = 1
        /\ \A j \in DOMAIN outbound : outbound[j].sn # inbox[i].sn
        /\ inbox[i].sn \in acked

\* C14 witness: such a request was dispatched, after another request.
C14_Witness ==
    \E i \in FireAndForget : i > 1 /\ inbox[i].sn \in Range(invoked)

\* ------------------------------------------------ client side: the claims

\* A search of the last call returned an envelope.
Found(s) == s.ran /\ ~s.raised /\ s.envelope # NoEnvelope
\* A search of the last call returned None.
NotFound(s) == s.ran /\ ~s.raised /\ s.envelope = NoEnvelope

\* The value send returns, or the exception it raises, for a final reply.
FinalOutcome(envelope) ==
    IF envelope.result.tag = "retval"
    THEN Returned(envelope.result.val)
    ELSE RemoteException(envelope.result.val)

\* C3 as stated: when the first envelope matching the request's sn carries a
\* result instead of a status, send returns its value or raises its remote
\* exception, and waits for no further envelope.
C3_ResultFirstIsFinal ==
    (Found(last.s1) /\ last.s1.envelope.status = None) =>
        /\ last.outcome = FinalOutcome(last.s1.envelope)
        /\ ~last.s2.ran

\* What a search that started after `base` messages had been read must have
\* done by the time it returned.
SearchOk(s, base) ==
    /\ Found(s) =>
         /\ s.envelope.sn = last.sn
         /\ s.nread > base
         /\ s.envelope = last.queue[s.nread]
         /\ \A j \in (base + 1)..(s.nread - 1) : last.queue[j].sn # last.sn
         /\ s.nacked = s.nread - 1
    /\ NotFound(s) =>
         /\ \A j \in (base + 1)..s.nread : last.queue[j].sn # last.sn
         /\ s.nacked = s.nread

\* C5: Reader.search returns an envelope with the requested sn or None; the
\* envelope returned is the first with that sn in queue order, and every
\* envelope read before it (or before None was returned) has been
\* acknowledged and discarded.
C5_SearchMatchesOrNone ==
    /\ SearchOk(last.s1, 0)
    /\ SearchOk(last.s2, last.s1.nread)

\* C5 witness: a search discarded an envelope with another sn and then
\* returned the envelope with the requested one.
C5_Witness ==
    /\ Found(last.s1)
    /\ last.s1.nread >= 2
    /\ last.s1.nacked = last.s1.nread - 1

\* C6 as stated: on every exit path of send, a failure while opening the
\* reader included, the reader that send constructed has been closed.
C6_ReaderAlwaysClosed ==
    last.reader # "none" => last.reader = "closed"

\* C7 as stated: no two calls of Synchronous.send use the same replyto queue.
C7_FreshReplyQueue ==
    \A i, j \in DOMAIN sent : i # j => sent[i].replyto # sent[j].replyto

\* C8 as stated: send raises RequestTimeout(sn, 0) exactly when the search of
\* the STARTED phase returns None, and RequestTimeout(sn, 1) exactly when a
\* STARTED envelope was matched and the search of the FINAL phase returns
\* None; sn is the serial number the producer gave the request.
C8_TimeoutIndex ==
    last.s1.ran =>
        /\ (last.outcome.kind = "RequestTimeout" /\ last.outcome.index = 0)
             <=> NotFound(last.s1)
        /\ (last.outcome.kind = "RequestTimeout" /\ last.outcome.index = 1)
             <=> ( /\ Found(last.s1)
                   /\ last.s1.envelope.status = "started"
                   /\ NotFound(last.s2) )
        /\ last.outcome.kind = "RequestTimeout" =>
             /\ last.outcome.sn = last.sn
             /\ last.sn = sent[Len(sent)].sn

\* C9: when STARTED and then the final reply are matched, send returns the
\* value of a succeeded reply and raises RemoteException for a failed one,
\* and both matched envelopes have been acknowledged.
C9_StartedThenFinal ==
    ( /\ Found(last.s1) /\ last.s1.envelope.status = "started"
      /\ Found(last.s2) ) =>
        /\ last.outcome = FinalOutcome(last.s2.envelope)
        /\ last.outcome.kind \in {"return", "RemoteException"}
        /\ (last.outcome.kind = "return") <=> (last.s2.envelope.result.tag = "retval")
        /\ last.s1.nread < last.s2.nread
        /\ last.nacked = last.s2.nread

\* C9 witness: STARTED and then a failed final reply were matched, after an
\* envelope with another sn.
C9_Witness ==
    /\ Found(last.s1) /\ last.s1.envelope.status = "started"
    /\ Found(last.s2) /\ last.s2.envelope.result.tag = "exval"
    /\ last.outcome.kind = "RemoteException"
    /\ last.s2.nread = MaxQueue

\* ------------------------------------------- asynchronous side: the claims

\* The events of one kind on trigger i.
EventsOf(kind, i) ==
    { k \in DOMAIN events : events[k].kind = kind /\ events[k].trigger = i }

\* Two invocations of trigger i overlap: a thread enters it while another
\* thread that entered it has neither returned nor raised.
Overlap(i) ==
    \E e \in EventsOf("enter", i), j \in EventsOf("enter", i) :
        /\ e < j
        /\ ~\E k \in (e + 1)..(j - 1) :
               /\ events[k].thread = events[e].thread
               /\ events[k].kind \in {"done", "raised"}

\* C15: once an invocation of a trigger has completed successfully, every
\* later invocation of it raises ('trigger already executed') without going
\* on to send; invoked one call after the other, the trigger has sent its
\* request exactly once.
C15_SingleShot ==
    \A i \in DOMAIN triggers :
        \A k \in EventsOf("done", i) :
            /\ \A j \in DOMAIN events :
                  (j > k /\ events[j].trigger = i) => events[j].kind # "enter"
            /\ ~Overlap(i) =>
                  Cardinality({ w \in DOMAIN wire : wire[w].sn = triggers[i].sn }) = 1

\* C15 witness: a trigger was invoked again after an invocation of it had
\* completed, and the invocations did not overlap.
C15_Witness ==
    \E i \in DOMAIN triggers :
        /\ ~Overlap(i)
        /\ \E k \in EventsOf("done", i), j \in EventsOf("already", i) : j > k

\* C16 as stated: however the invocations of one trigger by several threads
\* interleave, its request is sent at most once, the watchdog is notified at
\* most once, and at most one invocation succeeds.
C16_OneShotConcurrent ==
    \A i \in DOMAIN triggers :
        /\ Cardinality({ w \in DOMAIN wire : wire[w].sn = triggers[i].sn }) <= 1
        /\ Cardinality({ w \in DOMAIN tracked : tracked[w].sn = triggers[i].sn }) <= 1
        /\ Cardinality(EventsOf("done", i)) <= 1

\* ---------------------------------------------- qpid adapter: the claims

\* The RealConnections that thread-local Connection objects of url hold.
Held(url) == { conns[<<t, url>>] : t \in Threads } \ {Nil}

\* C17 as stated: the Connection objects that different threads open for one
\* url share one underlying connection, and at most one broker connection
\* per url is attached in the process.
C17_SameConnection ==
    \A url \in Urls :
        /\ Cardinality(Held(url)) <= 1
        /\ Cardinality({ k \in DOMAIN real :
                           real[k].url = url /\ real[k].state = "attached" }) <= 1

\* A thread returns from Reader.open on a reader that was open.
OpenOnOpen ==
    \E t \in Threads : rpc[t] = "open" /\ rpc'[t] = RIdle

\* C18: however the open() calls of several threads on one Reader interleave,
\* at most one receiver is open on the session, exactly one when the reader
\* is open, and open() on a reader that is open creates no receiver.
C18_OpensCoalesce ==
    [][ /\ Cardinality({ k \in DOMAIN receivers' : receivers'[k] }) <= 1
        /\ opened' <=> Cardinality({ k \in DOMAIN receivers' : receivers'[k] }) = 1
        /\ OpenOnOpen => (opened /\ receivers' = receivers) ]_vars

\* C18 witness: open() has returned in every thread, the second on a reader
\* that was open, and one receiver is open.
C18_Witness ==
    /\ ropened = Threads
    /\ opened
    /\ Cardinality(Live) = 1
    /\ Len(reads) = 0

\* A thread returns from Reader.close, or close raises.
CloseFinished ==
    \E t \in Threads : rpc[t] \in {"close", "endpoint"} /\ rpc'[t] = RIdle

\* C19 as stated: when Reader.close() finishes, no receiver of the reader is
\* open and the endpoint holds no session, whatever was raised before or by
\* closing the receiver.
C19_CloseReleases ==
    [][ CloseFinished =>
            /\ { k \in DOMAIN receivers' : receivers'[k] } = {}
            /\ ~rsession' ]_vars

\* How often message id was acknowledged.
Acks(id) == Cardinality({ a \in DOMAIN racked : racked[a] = id })

\* C20: a message that fails authentication in get, or schema validation in
\* next, is acknowledged exactly once and the failure is raised, nothing is
\* returned; when fetch raises Empty or another error, or open raises, none
\* is returned, nothing is raised and nothing acknowledged.
C20_ValidationAckedAndRaised ==
    \A k \in DOMAIN reads :
        LET r == reads[k] IN
        /\ r.kind = "authfail" =>
              (r.gave.raised = "ValidationFailed" /\ r.gave.ret = None /\ Acks(r.id) = 1)
        /\ r.kind = "invalid" =>
              (r.gave.raised = "InvalidRequest" /\ r.gave.ret = None /\ Acks(r.id) = 1)
        /\ r.kind \in {"empty", "error", "none"} =>
              r.gave = Gave(None, None, <<>>)
        /\ r.kind = "ok" => (r.gave.ret = "envelope" /\ Acks(r.id) = 0)

\* C20 witness: one call of next fetched a message that fails validation,
\* another met a transport error.
C20_Witness ==
    \E k \in DOMAIN reads, j \in DOMAIN reads :
        /\ reads[k].kind \in {"authfail", "invalid"}
        /\ reads[j].kind = "error"

\* ------------------------------------ server side: the loop and the replies

\* The messages whose processing raised out of consumer.received.
Failed == { i \in DOMAIN inbox : <<"failed", inbox[i].sn>> \in log }

\* C21: a message whose processing raises does not end the receive loop:
\* the thread ends only after stop() was called, and a step in which
\* processing raises leaves it at the head of the loop.
C21_LoopSurvives ==
    [][ /\ pc' = "done" => ~run'
        /\ (ReceivedOne /\ <<"failed", JustReceived.sn>> \in log') => pc' = "loop" ]_vars

\* C21 witness: the processing of a message raised, and a message fetched
\* after it was passed to the consumer and dispatched.
C21_Witness ==
    \E i \in Failed, j \in DOMAIN inbox : j > i /\ inbox[j].sn \in Range(invoked)

\* The requests dispatched on receipt or from the pending queue, with a
\* replyto.
Answered ==
    { i \in DOMAIN inbox :
        /\ IsRequest(inbox[i]) /\ inbox[i].replyto # None
        /\ inbox[i].sn \in Range(invoked) }

C26_SearchBounded ==
    /\ NotFound(last.s1) => last.s1.spent <= last.tmo[1]
    /\ NotFound(last.s2) => last.s2.spent - last.s1.spent <= last.tmo[2]

\* C25: Connection.close never raises and leaves the connection reporting
\* not open, whether the connection was open, closed before or never opened,
\* and whether or not the close of the underlying connection fails.
C25_CloseIdempotent ==
    lastclose.ran =>
        /\ ~lastclose.raised
        /\ ~is_open(lastclose.after)

\* C25 witness: close was called again on a connection that the call before
\* had closed, and the close of an underlying connection has failed: it is
\* attached and no Connection holds it.
C25_Witness ==
    /\ lastclose.again
    /\ \E k \in DOMAIN real :
          real[k].state = "attached" /\ \A c \in Instances : conns[c] # k

\* ---------------------------------- asynchronous side: what is sent, and when

\* The policy's ctag is set: neither None nor empty.
CtagSet == apolicy.ctag # None /\ apolicy.ctag # ""

\* replyto, ctag, both timeouts and the watchdog are present.
AllPresent ==
    /\ CtagSet
    /\ apolicy.timeout[1] # Nil /\ apolicy.timeout[2] # Nil
    /\ apolicy.watchdog # None

\* The requests on the wire, and the calls of watchdog.track, for sn.
WireOf(sn) == { w \in DOMAIN wire : wire[w].sn = sn }
TrackedOf(sn) == { k \in DOMAIN tracked : tracked[k].sn = sn }

C23_SendDeferredOrOnce ==
    \A k \in DOMAIN returned :
        /\ returned[k].kind = "trigger" =>
              \E i \in DOMAIN triggers :
                  /\ triggers[i].sn = returned[k].sn
                  /\ triggers[i].pending \/ EventsOf("done", i) # {}
                  /\ WireOf(returned[k].sn) # {} => EventsOf("sent", i) # {}
                  /\ Cardinality(WireOf(returned[k].sn)) = Cardinality(EventsOf("sent", i))
        /\ returned[k].kind = "sn" =>
              /\ Cardinality(WireOf(returned[k].sn)) = 1
              /\ \A i \in DOMAIN triggers : triggers[i].sn # returned[k].sn

\* C23 witness: a deferred send returned a trigger, which was invoked later
\* and sent its request.
C23_Witness ==
    \E k \in DOMAIN returned, i \in DOMAIN triggers :
        /\ returned[k].kind = "trigger"
        /\ triggers[i].sn = returned[k].sn
        /\ EventsOf("sent", i) # {}

\* The calls of broadcast that returned.
Broadcasts(kind) ==
    { k \in DOMAIN returned :
        "destinations" \in DOMAIN returned[k] /\ returned[k].kind = kind }

\* C24: broadcast builds one trigger for each destination, each with an sn of
\* its own; with the deferred option the triggers come back in destination
\* order and nothing is sent; else one request is sent to each destination
\* and the serial numbers come back in destination order, the i-th being the
\* sn of the request sent to the i-th destination.
C24_BroadcastOnePerDestination ==
    /\ \A k \in Broadcasts("triggers") \cup Broadcasts("sns") :
          LET b == returned[k] IN
          /\ Len(b.sns) = Len(b.destinations)
          /\ \A i, j \in DOMAIN b.sns : i # j => b.sns[i] # b.sns[j]
    /\ \A k \in Broadcasts("triggers") :
          LET b == returned[k] IN
          /\ \E o \in 0..Len(triggers) :
                \A i \in DOMAIN b.sns :
                    /\ o + i \in DOMAIN triggers
                    /\ triggers[o + i] = Trigger(b.sns[i], b.destinations[i])
          /\ \A i \in DOMAIN b.sns : WireOf(b.sns[i]) = {}
    /\ \A k \in Broadcasts("sns") :
          LET b == returned[k] IN
          /\ \A i \in DOMAIN b.sns :
                /\ Cardinality(WireOf(b.sns[i])) = 1
                /\ \A w \in WireOf(b.sns[i]) : wire[w].destination = b.destinations[i]
          /\ \A i, j \in DOMAIN b.sns, w \in DOMAIN wire, x \in DOMAIN wire :
                (i < j /\ wire[w].sn = b.sns[i] /\ wire[x].sn = b.sns[j]) => w < x

\* C24 witness: a broadcast to two destinations sent its requests, after
\* another call had used up a serial number.
C24_Witness ==
    \E k \in Broadcasts("sns") :
        k > 1 /\ Len(returned[k].destinations) = 2

\* A step of an invocation of a trigger, and the event it added.
Invoked == Len(events') = Len(events) + 1
JustDid == events'[Len(events')]

\* C29: when producer.send raises in an invocation of a trigger the error
\* reaches the caller, the trigger is not marked executed, nothing is sent and
\* the watchdog is not notified; the sn of a trigger never changes, and every
\* request an invocation sends, a later one included, carries it.
C29_RaiseKeepsPending ==
    [][ /\ (Invoked /\ JustDid.kind = "raised") =>
              /\ triggers' = triggers
              /\ wire' = wire
              /\ tracked' = tracked
              /\ tpc'[JustDid.thread] = Idle
        /\ (Invoked /\ JustDid.kind = "sent") =>
              /\ Len(wire') = Len(wire) + 1
              /\ wire'[Len(wire')].sn = triggers[JustDid.trigger].sn
        /\ \A i \in DOMAIN triggers : triggers'[i].sn = triggers[i].sn ]_vars

\* C29 witness: producer.send raised in an invocation of a trigger, and a
\* later invocation of the trigger sent the request.
C29_Witness ==
    \E i \in DOMAIN triggers :
        \E r \in EventsOf("raised", i), w \in EventsOf("sent", i) :
            r < w /\ WireOf(triggers[i].sn) # {}

====
